---- MODULE Spec2Model ----
(***************************************************************************)
(* The mark resolution state machine of rust/automerge/src/marks.rs        *)
(* (MarkStateMachine): a vector of (OpId, Mark) pairs kept sorted by the   *)
(* lamport order of the ids, and the begin/end operations that insert,     *)
(* remove and resolve overlapping marks of the same name.                  *)
(***************************************************************************)
EXTENDS Integers, Sequences, FiniteSets, TLC

\* ------------------------------------------------------------------ bounds

\* Positions passed to the calls are 0..MaxPos.
MaxPos == 1

\* The calls of one run of the general specification.
MaxOps == 3

\* ------------------------------------------------------------ value domains

\* Operation ids are (counter, actor) pairs; the actors are ordered 1 < 2.
OpId(c, a) == [ctr |-> c, actor |-> a]

\* The ids the begins draw from: two of one counter, told apart by the actor,
\* and a later one. The end paired with a begin has the next counter of the same
\* actor (EndOf), so no id is both a begin's and an end's.
Ids == {OpId(1, 1), OpId(1, 2), OpId(3, 1)}

Names == {"bold", "italic"}

\* ScalarValue: "null" is ScalarValue::Null, the unmark sentinel.
Values == {"null", "true", "false"}

Positions == 0..MaxPos

\* MarkData { name, value }
MarkData == [name : Names, value : Values]

\* Option<T>: None is <<>>, Some(x) is <<x>>.
None == <<>>
Some(x) == <<x>>

\* ---------------------------------------------------------------- helpers

\* OpSetMetadata::lamport_cmp: counter first, then actor.
LamportCmp(l, r) ==
    IF l.ctr < r.ctr THEN "Less"
    ELSE IF l.ctr > r.ctr THEN "Greater"
    ELSE IF l.actor < r.actor THEN "Less"
    ELSE IF l.actor > r.actor THEN "Greater"
    ELSE "Equal"

\* OpId::prev: the id of the begin an end operation closes.
Prev(id) == OpId(id.ctr - 1, id.actor)

\* The id of the end operation paired with begin id b (Prev's inverse).
EndOf(b) == OpId(b.ctr + 1, b.actor)

\* Mark::from_data(start, end, data)
FromData(start, end, data) ==
    [start |-> start, end |-> end, name |-> data.name, value |-> data.value]

\* Mark::is_null
IsNull(m) == m.value = "null"

\* slice::binary_search_by over st[lo..hi) (0-based, as in the source):
\* Ok(i) is [ok |-> TRUE, index |-> i], Err(i) is [ok |-> FALSE, index |-> i].
RECURSIVE BinarySearch(_, _, _, _)
BinarySearch(st, target, lo, hi) ==
    IF lo >= hi THEN [ok |-> FALSE, index |-> lo]
    ELSE LET mid == lo + ((hi - lo) \div 2)
             c   == LamportCmp(st[mid + 1].id, target)
         IN  IF c = "Equal" THEN [ok |-> TRUE, index |-> mid]
             ELSE IF c = "Less" THEN BinarySearch(st, target, mid + 1, hi)
             ELSE BinarySearch(st, target, lo, mid)

\* find reporting the place after the insertion point on a miss.
FindPastEnd(st, target) ==
    LET f == BinarySearch(st, target, 0, Len(st))
    IN  IF f.ok THEN f ELSE [ok |-> FALSE, index |-> f.index + 1]

\* MarkStateMachine::find
Find(st, target) == BinarySearch(st, target, 0, Len(st))

\* mark_above taking the last match of state[index..] instead of the first.
MarkAboveLast(st, index, mark) ==
    LET hits == {i \in index..(Len(st) - 1) : st[i + 1].mark.name = mark.name}
    IN  IF hits = {} THEN None
        ELSE Some(CHOOSE i \in hits : \A j \in hits : i >= j)

\* mark_above without the comparison of the names.
MarkAboveAnyName(st, index, mark) ==
    IF index >= Len(st) THEN None ELSE Some(index)

\* mark_above searching state[index + 1..], as if the closed entry were still
\* in the vector.
MarkAboveSkip(st, index, mark) ==
    LET hits == {i \in (index + 1)..(Len(st) - 1) : st[i + 1].mark.name = mark.name}
    IN  IF hits = {} THEN None
        ELSE Some(CHOOSE i \in hits : \A j \in hits : i <= j)

\* MarkStateMachine::mark_above: the first entry of state[index..] with the
\* mark's name, as the 0-based index of the entry (None when there is none).
MarkAbove(st, index, mark) ==
    LET hits == {i \in index..(Len(st) - 1) : st[i + 1].mark.name = mark.name}
    IN  IF hits = {} THEN None
        ELSE Some(CHOOSE i \in hits : \A j \in hits : i <= j)

\* mark_below taking the first match of state[0..index] instead of the last.
MarkBelowFirst(st, index, mark) ==
    LET hits == {i \in 0..(index - 1) : st[i + 1].mark.name = mark.name}
    IN  IF hits = {} THEN None
        ELSE Some(CHOOSE i \in hits : \A j \in hits : i <= j)

\* MarkStateMachine::mark_below: the last entry of state[0..index] with the
\* mark's name, as the 0-based index of the entry (None when there is none).
MarkBelow(st, index, mark) ==
    LET hits == {i \in 0..(index - 1) : st[i + 1].mark.name = mark.name}
    IN  IF hits = {} THEN None
        ELSE Some(CHOOSE i \in hits : \A j \in hits : i >= j)

\* The ids of the entries of a state vector.
IdsOf(st) == {st[i].id : i \in 1..Len(st)}

\* Vec::push in the place of Vec::insert(index, x).
InsertAtEnd(st, index, x) == Append(st, x)

\* Vec::insert(index, x), index 0-based.
Insert(st, index, x) ==
    SubSeq(st, 1, index) \o <<x>> \o SubSeq(st, index + 1, Len(st))

\* Vec::remove(0) in the place of Vec::remove(index).
RemoveFirst(st, index) == Tail(st)

\* Vec::remove(index), index 0-based: the vector without the element.
Remove(st, index) ==
    SubSeq(st, 1, index) \o SubSeq(st, index + 2, Len(st))

\* ------------------------------------------------------------- operations

\* mark_or_unmark_begin after find, truncating the below entry in place
\* (m.end = pos on the entry itself, without below.clone()).
BeginAtNoClone(st, index, id, pos, data) ==
    LET mark  == FromData(pos, pos, data)
        above == MarkAbove(st, index, mark)
        below == MarkBelow(st, index, mark)
        a     == st[above[1] + 1].mark
        b     == st[below[1] + 1].mark
        start == IF above # None
                 THEN (IF a.value = mark.value THEN a.start ELSE pos)
                 ELSE IF below # None /\ b.value = mark.value
                 THEN b.start
                 ELSE pos
        cut   == above = None /\ below # None /\ b.value # mark.value
        res   == IF cut THEN Some([b EXCEPT !.end = pos]) ELSE None
        st1   == IF cut THEN [st EXCEPT ![below[1] + 1].mark.end = pos] ELSE st
    IN  [state  |-> Insert(st1, index,
                           [id |-> id, mark |-> [mark EXCEPT !.start = start]]),
         result |-> res]

\* mark_or_unmark_begin after find: the candidate mark, the above/below
\* resolution and the insert at index.
BeginAt(st, index, id, pos, data) ==
    LET mark  == FromData(pos, pos, data)
        above == MarkAbove(st, index, mark)
        below == MarkBelow(st, index, mark)
        a     == st[above[1] + 1].mark
        b     == st[below[1] + 1].mark
        start == IF above # None
                 THEN (IF a.value = mark.value THEN a.start ELSE pos)
                 ELSE IF below # None /\ b.value = mark.value
                 THEN b.start
                 ELSE pos
        res   == IF above = None /\ below # None /\ b.value # mark.value
                 THEN Some([b EXCEPT !.end = pos])
                 ELSE None
    IN  [state  |-> Insert(st, index,
                           [id |-> id, mark |-> [mark EXCEPT !.start = start]]),
         result |-> res]

\* mark_or_unmark_begin without the early return on a present id.
MarkOrUnmarkBeginNoDupCheck(st, id, pos, data) ==
    BeginAt(st, Find(st, id).index, id, pos, data)

\* MarkStateMachine::mark_or_unmark_begin: the new state and the result.
\* find(id).err()? returns None, with no mutation, when the id is present.
MarkOrUnmarkBegin(st, id, pos, data) ==
    LET f == Find(st, id)
    IN  IF f.ok THEN [state |-> st, result |-> None]
        ELSE BeginAt(st, f.index, id, pos, data)

\* The null filter left out.
FilterNullOff(res) == res

\* The null filter of mark_begin and mark_end: and_then(|m| if m.is_null() ...).
FilterNull(res) == IF res # None /\ IsNull(res[1]) THEN None ELSE res

\* MarkStateMachine::mark_begin
MarkBegin(st, id, pos, data) ==
    LET r == MarkOrUnmarkBegin(st, id, pos, data)
    IN  [state |-> r.state, result |-> FilterNull(r.result)]

\* mark_or_unmark_end after find, without mark.end = pos.
EndAtStaleEnd(st, index, pos) ==
    LET mark  == st[index + 1].mark
        rest  == Remove(st, index)
        above == MarkAbove(rest, index, mark)
        below == MarkBelow(rest, index, mark)
        b     == rest[below[1] + 1].mark
    IN  IF above # None THEN [state |-> rest, result |-> None]
        ELSE IF below = None THEN [state |-> rest, result |-> Some(mark)]
        ELSE IF b.value = mark.value THEN [state |-> rest, result |-> None]
        ELSE [state  |-> [rest EXCEPT ![below[1] + 1].mark.start = pos],
              result |-> Some(mark)]

\* mark_or_unmark_end after find, without below.start = pos.
EndAtNoReveal(st, index, pos) ==
    LET mark  == [st[index + 1].mark EXCEPT !.end = pos]
        rest  == Remove(st, index)
        above == MarkAbove(rest, index, mark)
        below == MarkBelow(rest, index, mark)
        b     == rest[below[1] + 1].mark
    IN  IF above # None THEN [state |-> rest, result |-> None]
        ELSE IF below = None THEN [state |-> rest, result |-> Some(mark)]
        ELSE IF b.value = mark.value THEN [state |-> rest, result |-> None]
        ELSE [state |-> rest, result |-> Some(mark)]

\* mark_or_unmark_end after find: the remove at index and the above/below
\* resolution of the closed mark.
EndAt(st, index, pos) ==
    LET mark  == [st[index + 1].mark EXCEPT !.end = pos]
        rest  == Remove(st, index)
        above == MarkAbove(rest, index, mark)
        below == MarkBelow(rest, index, mark)
        b     == rest[below[1] + 1].mark
    IN  IF above # None THEN [state |-> rest, result |-> None]
        ELSE IF below = None THEN [state |-> rest, result |-> Some(mark)]
        ELSE IF b.value = mark.value THEN [state |-> rest, result |-> None]
        ELSE [state  |-> [rest EXCEPT ![below[1] + 1].mark.start = pos],
              result |-> Some(mark)]

\* mark_or_unmark_end using the index of a failed find (unwrap_or_else).
MarkOrUnmarkEndNoCheck(st, id, pos) ==
    LET f == Find(st, Prev(id))
    IN  IF f.index < Len(st) THEN EndAt(st, f.index, pos)
        ELSE [state |-> st, result |-> None]

\* MarkStateMachine::mark_or_unmark_end: the new state and the result.
\* find(id.prev()).ok()? returns None, with no mutation, when the begin is absent.
MarkOrUnmarkEnd(st, id, pos) ==
    LET f == Find(st, Prev(id))
    IN  IF ~f.ok THEN [state |-> st, result |-> None]
        ELSE EndAt(st, f.index, pos)

\* MarkStateMachine::mark_end
MarkEnd(st, id, pos) ==
    LET r == MarkOrUnmarkEnd(st, id, pos)
    IN  [state |-> r.state, result |-> FilterNull(r.result)]

\* ------------------------------------------------------------- ExpandMark

\* enum ExpandMark
ExpandMarks == {"Before", "After", "Both", "None"}

\* impl Default for ExpandMark
ExpandDefault == "After"

\* from with the two one-sided settings exchanged.
ExpandFromSwapped(before, after) ==
    IF before /\ after THEN "Both"
    ELSE IF ~before /\ after THEN "Before"
    ELSE IF before /\ ~after THEN "After"
    ELSE "None"

\* ExpandMark::from: the match on (before, after), arm by arm.
ExpandFrom(before, after) ==
    IF before /\ after THEN "Both"
    ELSE IF ~before /\ after THEN "After"
    ELSE IF before /\ ~after THEN "Before"
    ELSE "None"

\* ExpandMark::before: matches!(self, Self::Before | Self::Both)
ExpandBefore(e) == e = "Before" \/ e = "Both"

\* ExpandMark::after: matches!(self, Self::After | Self::Both)
ExpandAfter(e) == e = "After" \/ e = "Both"

\* ---------------------------------------------------------------- Parents

\* The objects of a document besides the root (object 0), and the keys under
\* which an object can sit in its parent.
MaxObjs == 2
Objs == 0..MaxObjs
Keys == {"k1", "k2"}

\* ObjId::is_root
IsRoot(o) == o = 0

\* What OpSet::parent_object knows of an object: nothing, or the object that
\* contains it, the key under which it does, and whether that key is visible.
NoParent == [obj |-> 0, key |-> "none", visible |-> FALSE]
Links(o) == {NoParent} \cup [obj : 0..(o - 1), key : Keys, visible : BOOLEAN]

\* The documents: each object but the root linked to an object made before it.
Docs == {d \in [1..MaxObjs -> UNION {Links(o) : o \in 1..MaxObjs}] :
            \A o \in 1..MaxObjs : d[o] \in Links(o)}

\* OpSet::parent_object
ParentObject(doc, o) == IF doc[o] = NoParent THEN None ELSE Some(doc[o])

\* OpSet::id_to_exid: the external id of an object.
IdToExId(o) == IF IsRoot(o) THEN <<"Root">> ELSE <<"Id", o>>

\* OpSet::export_key: the property that key names in object o.
ExportKey(o, key) == Some(<<"Map", key>>)

\* Iterator::next for Parents on the iterator whose obj is o: None, or the
\* new obj of the iterator with the Parent yielded.
IterNext(doc, o) ==
    IF IsRoot(o) THEN None
    ELSE LET p == ParentObject(doc, o)
         IN  IF p # None
             THEN Some([obj  |-> p[1].obj,
                        item |-> [obj     |-> IdToExId(p[1].obj),
                                  prop    |-> ExportKey(p[1].obj, p[1].key)[1],
                                  visible |-> p[1].visible]])
             ELSE None

\* Vec::reverse
Reverse(s) == [i \in 1..Len(s) |-> s[Len(s) + 1 - i]]

\* The closure of path(): |Parent { obj, prop, .. }| (obj, prop)
Pair(item) == <<item.obj, item.prop>>

\* map(..).collect() over the iterator whose obj is o.
RECURSIVE Collect(_, _)
Collect(doc, o) ==
    LET n == IterNext(doc, o)
    IN  IF n = None THEN <<>>
        ELSE <<Pair(n[1].item)>> \o Collect(doc, n[1].obj)

\* Parents::path
Path(doc, o) == Reverse(Collect(doc, o))

\* The loop of visible_path leaving at an invisible component with what it has
\* (break in the place of return None).
RECURSIVE VisibleLoopBreak(_, _, _)
VisibleLoopBreak(doc, o, path) ==
    LET n == IterNext(doc, o)
    IN  IF n = None THEN Some(Reverse(path))
        ELSE IF ~n[1].item.visible THEN Some(Reverse(path))
        ELSE VisibleLoopBreak(doc, n[1].obj, Append(path, Pair(n[1].item)))

\* The for loop of visible_path over the iterator whose obj is o, path being
\* what was pushed so far, then path.reverse() and Some(path).
RECURSIVE VisibleLoop(_, _, _)
VisibleLoop(doc, o, path) ==
    LET n == IterNext(doc, o)
    IN  IF n = None THEN Some(Reverse(path))
        ELSE IF ~n[1].item.visible THEN None
        ELSE VisibleLoop(doc, n[1].obj, Append(path, Pair(n[1].item)))

\* Parents::visible_path
VisiblePath(doc, o) == VisibleLoop(doc, o, <<>>)

\* ------------------------------------------------------------------ state

VARIABLES
    state,   \* MarkStateMachine.state: the sequence of [id, mark] entries
    last,    \* the latest call: its kind, arguments, the state before, the result
    nops,    \* the calls made so far
    hist,    \* the run so far. IdemSpec: the calls made before the latest.
             \* HistSpec: one engine per name, fed that name's calls alone, the
             \* names each id was begun under, and the solo spans
    replay,  \* ReplaySpec: the replay so far (the latest position, the begins
             \* applied, those closed, the marks returned in order, and each
             \* begin's payload with the positions of the begin and of its end)
    conv,    \* ConvSpec: the set of operations, what was fed to the first engine
             \* (state) and to the second (conv.stateB), the marks each returned
    expand,  \* ExpandSpec: the ExpandMark values built so far, each with the
             \* arguments it was built from and what before() and after() say
    par      \* ParentsSpec: the document's parent links, the object asked about,
             \* a Parents iterator over it (its obj, what it yielded, whether
             \* it returned None) and what path() and visible_path() returned

vars == <<state, last, nops, hist, replay, conv, expand, par>>

NoData == [name |-> "bold", value |-> "null"]

NoCall == [op |-> "none", id |-> OpId(0, 1), pos |-> 0, data |-> NoData,
           pre |-> <<>>, ret |-> None]

\* A fresh engine and what its latest call returned: MarkStateMachine::default().
Fresh == [state |-> <<>>, ret |-> None]

NoHist == [seen |-> {}, prev |-> None, shadow |-> [n \in Names |-> Fresh],
           named |-> {}, solo |-> {}, soloPre |-> {}]

NoSpan == [data |-> NoData, from |-> 0, to |-> 0]

NoReplay == [cur |-> 0, begun |-> {}, closed |-> {}, deltas |-> <<>>,
             spans |-> [b \in Ids |-> NoSpan]]

NoConv == [phase |-> "none"]

NoParents == [phase |-> "none"]

\* MarkStateMachine::default(): the empty vector.
Init ==
    /\ state = <<>>
    /\ last = NoCall
    /\ nops = 0
    /\ hist = NoHist
    /\ replay = NoReplay
    /\ conv = NoConv
    /\ expand = <<>>
    /\ par = NoParents

\* The call mark_begin(id, pos, data) on the engine.
BeginCall(id, pos, data) ==
    LET r == MarkBegin(state, id, pos, data)
    IN  /\ state' = r.state
        /\ last' = [op |-> "begin", id |-> id, pos |-> pos, data |-> data,
                    pre |-> state, ret |-> r.result]

\* The call mark_end(id, pos) on the engine.
EndCall(id, pos) ==
    LET r == MarkEnd(state, id, pos)
    IN  /\ state' = r.state
        /\ last' = [op |-> "end", id |-> id, pos |-> pos, data |-> NoData,
                    pre |-> state, ret |-> r.result]

\* One call of mark_begin(id, pos, data).
DoMarkBegin ==
    /\ nops < MaxOps
    /\ \E id \in Ids, pos \in Positions, data \in MarkData :
         BeginCall(id, pos, data)
    /\ nops' = nops + 1
    /\ UNCHANGED <<hist, replay, conv, expand, par>>

\* One call of mark_end(id, pos); the ids are those of the ends paired with Ids.
DoMarkEnd ==
    /\ nops < MaxOps
    /\ \E b \in Ids, pos \in Positions :
         EndCall(EndOf(b), pos)
    /\ nops' = nops + 1
    /\ UNCHANGED <<hist, replay, conv, expand, par>>

Next == DoMarkBegin \/ DoMarkEnd

Spec == Init /\ [][Next]_vars

\* ------------------------------------------------- the run with its history

\* The calls of one run of HistSpec.
HistOps == 3

\* The ids the calls of HistSpec draw from.
HistIds == {OpId(1, 1), OpId(1, 2)}

\* An engine after mark_begin(id, pos, data), with what the call returned.
FeedBegin(e, id, pos, data) ==
    LET r == MarkBegin(e.state, id, pos, data)
    IN  [state |-> r.state, ret |-> r.result]

\* An engine after mark_end(id, pos), with what the call returned.
FeedEnd(e, id, pos) ==
    LET r == MarkEnd(e.state, id, pos)
    IN  [state |-> r.state, ret |-> r.result]

\* An engine that was not called at this step.
Skip(e) == [state |-> e.state, ret |-> None]

\* The entries of a state vector whose mark has name n, in their order.
OfName(st, n) == SelectSeq(st, LAMBDA e : e.mark.name = n)

\* The solo spans after mark_begin(id, pos, data) on state st: a span is solo
\* from its begin while no other entry of the engine has its name.
SoloAfterBegin(solo, st, id, pos, data) ==
    IF id \in IdsOf(st) THEN solo
    ELSE IF OfName(st, data.name) = <<>>
    THEN solo \cup {[id |-> id, pos |-> pos, data |-> data]}
    ELSE {s \in solo : s.data.name # data.name}

\* The latest call as an operation: its kind, id, position and payload.
CallOf(l) == [op |-> l.op, id |-> l.id, pos |-> l.pos, data |-> l.data]

\* The calls made before the one that is being made now.
SeenNow == IF last.op = "none" THEN {} ELSE hist.seen \cup {CallOf(last)}
PrevNow == IF last.op = "none" THEN None ELSE Some(CallOf(last))

\* One call of mark_begin, the same call made on the engine of its name alone.
HistBegin ==
    /\ nops < HistOps
    /\ \E id \in HistIds, pos \in Positions, data \in MarkData :
         /\ BeginCall(id, pos, data)
         /\ hist' =
              [hist EXCEPT
                 !.shadow  = [n \in Names |->
                                IF n = data.name
                                THEN FeedBegin(hist.shadow[n], id, pos, data)
                                ELSE Skip(hist.shadow[n])],
                 !.named   = hist.named \cup {[id |-> id, name |-> data.name]},
                 !.solo    = SoloAfterBegin(hist.solo, state, id, pos, data),
                 !.soloPre = hist.solo]
    /\ nops' = nops + 1
    /\ UNCHANGED <<replay, conv, expand, par>>

\* One call of mark_end. An end carries no name: the engine of every name is
\* fed it.
HistEnd ==
    /\ nops < HistOps
    /\ \E b \in HistIds, pos \in Positions :
         /\ EndCall(EndOf(b), pos)
         /\ hist' =
              [hist EXCEPT
                 !.shadow  = [n \in Names |-> FeedEnd(hist.shadow[n], EndOf(b), pos)],
                 !.solo    = {s \in hist.solo : s.id # b},
                 !.soloPre = hist.solo]
    /\ nops' = nops + 1
    /\ UNCHANGED <<replay, conv, expand, par>>

HistNext == HistBegin \/ HistEnd

HistSpec == Init /\ [][HistNext]_vars

\* ------------------------------------------- the run with the calls it made

\* The calls of one run of IdemSpec.
IdemOps == 3

\* The payloads the calls of IdemSpec draw from.
IdemData == [name : Names, value : {"null", "true"}]

\* One call of mark_begin, the calls made before it remembered.
IdemBegin ==
    /\ nops < IdemOps
    /\ \E id \in HistIds, pos \in Positions, data \in IdemData :
         BeginCall(id, pos, data)
    /\ hist' = [hist EXCEPT !.seen = SeenNow, !.prev = PrevNow]
    /\ nops' = nops + 1
    /\ UNCHANGED <<replay, conv, expand, par>>

\* One call of mark_end, the calls made before it remembered.
IdemEnd ==
    /\ nops < IdemOps
    /\ \E b \in HistIds, pos \in Positions :
         EndCall(EndOf(b), pos)
    /\ hist' = [hist EXCEPT !.seen = SeenNow, !.prev = PrevNow]
    /\ nops' = nops + 1
    /\ UNCHANGED <<replay, conv, expand, par>>

IdemNext == IdemBegin \/ IdemEnd

IdemSpec == Init /\ [][IdemNext]_vars

\* ------------------------------------------------------------- the replay

\* A sequence with x appended when the Option opt is Some(x).
Push(seq, opt) == IF opt = None THEN seq ELSE Append(seq, opt[1])

\* A begin of the replay: an id not begun before, at a position not before the
\* latest one.
ReplayBegin ==
    /\ \E id \in Ids \ replay.begun, pos \in replay.cur..MaxPos, data \in MarkData :
         /\ BeginCall(id, pos, data)
         /\ replay' = [replay EXCEPT
                         !.cur    = pos,
                         !.begun  = @ \cup {id},
                         !.deltas = Push(@, MarkBegin(state, id, pos, data).result),
                         !.spans[id] = [data |-> data, from |-> pos, to |-> pos]]
    /\ UNCHANGED <<nops, hist, conv, expand, par>>

\* An end of the replay: the end paired with a begin that was applied and is
\* not closed yet, at a position not before the latest one.
ReplayEnd ==
    /\ \E b \in replay.begun \ replay.closed, pos \in replay.cur..MaxPos :
         /\ EndCall(EndOf(b), pos)
         /\ replay' = [replay EXCEPT
                         !.cur    = pos,
                         !.closed = @ \cup {b},
                         !.deltas = Push(@, MarkEnd(state, EndOf(b), pos).result),
                         !.spans[b].to = pos]
    /\ UNCHANGED <<nops, hist, conv, expand, par>>

ReplayNext == ReplayBegin \/ ReplayEnd

ReplaySpec == Init /\ [][ReplayNext]_vars

\* ------------------------------------- two engines fed one set of operations

\* The begins of the set: each with its position and payload, the position of
\* its end, and whether its end is in the set.
ConvIds == {OpId(1, 1), OpId(1, 2)}
Plans == [ConvIds -> {p \in [data : MarkData, from : Positions, to : Positions,
                              ends : BOOLEAN] : p.from <= p.to}]

\* The operations of a set: a begin per id, and the ends that are in it.
OpsOf(plan) ==
    {[op |-> "begin", id |-> b] : b \in ConvIds}
        \cup {[op |-> "end", id |-> b] : b \in {c \in ConvIds : plan[c].ends}}

\* The operations that may be fed next: not fed yet, an end after its begin.
Ready(plan, fed) ==
    {o \in OpsOf(plan) \ fed :
        o.op = "end" => [op |-> "begin", id |-> o.id] \in fed}

\* The call of operation o of the set on a state vector.
Apply(plan, st, o) ==
    IF o.op = "begin"
    THEN MarkBegin(st, o.id, plan[o.id].from, plan[o.id].data)
    ELSE MarkEnd(st, EndOf(o.id), plan[o.id].to)

\* The set of operations is chosen.
ConvChoose ==
    /\ conv.phase = "none"
    /\ \E plan \in Plans :
         conv' = [phase |-> "fed", plan |-> plan, fedA |-> {}, fedB |-> {},
                  outA |-> {}, outB |-> {}, stateB |-> <<>>]
    /\ UNCHANGED <<state, last, nops, hist, replay, expand, par>>

\* The first engine is fed an operation of the set.
ConvFeedA ==
    /\ conv.phase = "fed"
    /\ \E o \in Ready(conv.plan, conv.fedA) :
         LET r == Apply(conv.plan, state, o)
         IN  /\ IF o.op = "begin"
                THEN BeginCall(o.id, conv.plan[o.id].from, conv.plan[o.id].data)
                ELSE EndCall(EndOf(o.id), conv.plan[o.id].to)
             /\ conv' = [conv EXCEPT !.fedA = @ \cup {o},
                                     !.outA = @ \cup {r.result[i] : i \in 1..Len(r.result)}]
    /\ UNCHANGED <<nops, hist, replay, expand, par>>

\* The second engine is fed an operation of the set, once the first engine was
\* fed them all (the engines share nothing: the interleaving changes nothing).
ConvFeedB ==
    /\ conv.phase = "fed"
    /\ conv.fedA = OpsOf(conv.plan)
    /\ \E o \in Ready(conv.plan, conv.fedB) :
         LET r == Apply(conv.plan, conv.stateB, o)
         IN  conv' = [conv EXCEPT !.fedB = @ \cup {o},
                                 !.stateB = r.state,
                                 !.outB = @ \cup {r.result[i] : i \in 1..Len(r.result)}]
    /\ UNCHANGED <<state, last, nops, hist, replay, expand, par>>

ConvNext == ConvChoose \/ ConvFeedA \/ ConvFeedB

ConvSpec == Init /\ [][ConvNext]_vars

\* ------------------------------------------------------------- ExpandSpec

\* The ExpandMark values built in a run.
ExpandCalls == 5

\* What before() and after() answer on the value e built by the call how.
Built(how, e) == how @@ [out |-> e, before |-> ExpandBefore(e), after |-> ExpandAfter(e)]

\* ExpandMark::from(before, after) is called, and the result is queried.
DoExpandFrom ==
    /\ Len(expand) < ExpandCalls
    /\ \E b, a \in BOOLEAN :
         expand' = Append(expand, Built([via |-> "from", b |-> b, a |-> a],
                                        ExpandFrom(b, a)))
    /\ UNCHANGED <<state, last, nops, hist, replay, conv, par>>

\* ExpandMark::default() is called, and the result is queried.
DoExpandDefault ==
    /\ Len(expand) < ExpandCalls
    /\ expand' = Append(expand, Built([via |-> "default", b |-> FALSE, a |-> FALSE],
                                      ExpandDefault))
    /\ UNCHANGED <<state, last, nops, hist, replay, conv, par>>

ExpandNext == DoExpandFrom \/ DoExpandDefault

ExpandSpec == Init /\ [][ExpandNext]_vars

\* ------------------------------------------------------------ ParentsSpec

\* A document and an object of it are chosen, and a Parents iterator over the
\* object is made (ReadDoc::parents).
ParentsOpen ==
    /\ par.phase = "none"
    /\ \E doc \in Docs, target \in Objs :
         par' = [phase |-> "open", doc |-> doc, target |-> target,
                 obj |-> target, yielded |-> <<>>, done |-> FALSE,
                 path |-> None, vpath |-> None]
    /\ UNCHANGED <<state, last, nops, hist, replay, conv, expand>>

\* Iterator::next is called on the iterator.
ParentsIterNext ==
    /\ par.phase = "open"
    /\ ~par.done
    /\ LET n == IterNext(par.doc, par.obj)
       IN  par' = IF n = None
                  THEN [par EXCEPT !.done = TRUE]
                  ELSE [par EXCEPT !.obj = n[1].obj,
                                   !.yielded = Append(@, n[1].item)]
    /\ UNCHANGED <<state, last, nops, hist, replay, conv, expand>>

\* path() is called on a Parents of the object.
DoPath ==
    /\ par.phase = "open"
    /\ par.path = None
    /\ par' = [par EXCEPT !.path = Some(Path(par.doc, par.target))]
    /\ UNCHANGED <<state, last, nops, hist, replay, conv, expand>>

\* visible_path() is called on a Parents of the object.
DoVisiblePath ==
    /\ par.phase = "open"
    /\ par.vpath = None
    /\ par' = [par EXCEPT !.vpath = Some(VisiblePath(par.doc, par.target))]
    /\ UNCHANGED <<state, last, nops, hist, replay, conv, expand>>

ParentsNext == ParentsOpen \/ ParentsIterNext \/ DoPath \/ DoVisiblePath

ParentsSpec == Init /\ [][ParentsNext]_vars

\* ------------------------------------------------- reading the latest call

\* The latest call was a mark_begin that inserted a new entry.
Inserted == last.op = "begin" /\ last.id \notin IdsOf(last.pre)

\* Where the new entry stands in the state after the call (1-based).
InsAt == CHOOSE i \in 1..Len(state) : state[i].id = last.id

\* The entries of the state before the call that share the new payload's name
\* and stand at or above (below) the insertion index, by their place in last.pre.
AboveIdx == {i \in InsAt..Len(last.pre) : last.pre[i].mark.name = last.data.name}
BelowIdx == {i \in 1..(InsAt - 1) : last.pre[i].mark.name = last.data.name}
FirstAbove == CHOOSE i \in AboveIdx : \A j \in AboveIdx : i <= j
LastBelow == CHOOSE i \in BelowIdx : \A j \in BelowIdx : i >= j

\* -------------------------------------------------------------- C4

\* C4: a mark_begin whose id is present in the state returns nothing and leaves
\* the state exactly as it was, whatever pos and payload it carries.
C4_DuplicateBegin ==
    (last.op = "begin" /\ last.id \in IdsOf(last.pre))
        => (last.ret = None /\ state = last.pre)

\* A duplicate begin that carries another payload and position than the entry.
C4_Witness ==
    /\ last.op = "begin"
    /\ \E i \in 1..Len(last.pre) :
         /\ last.pre[i].id = last.id
         /\ last.pre[i].mark.name # last.data.name
         /\ last.pre[i].mark.value # last.data.value
         /\ last.pre[i].mark.end # last.pos
    /\ Len(last.pre) >= 2

\* -------------------------------------------------------------- C5

\* C5: a mark_end whose paired begin id (id.prev()) is not in the state returns
\* nothing and leaves the state exactly as it was.
C5_UnmatchedEnd ==
    (last.op = "end" /\ Prev(last.id) \notin IdsOf(last.pre))
        => (last.ret = None /\ state = last.pre)

\* An unmatched end on a state that holds other entries, above and below the
\* place its begin would have.
C5_Witness ==
    /\ last.op = "end"
    /\ Prev(last.id) \notin IdsOf(last.pre)
    /\ \E i, j \in 1..Len(last.pre) :
         /\ LamportCmp(last.pre[i].id, Prev(last.id)) = "Less"
         /\ LamportCmp(last.pre[j].id, Prev(last.id)) = "Greater"

\* -------------------------------------------------------------- C7

\* What the unfiltered operation does on the latest call's input.
Unfiltered ==
    IF last.op = "begin"
    THEN MarkOrUnmarkBegin(last.pre, last.id, last.pos, last.data)
    ELSE MarkOrUnmarkEnd(last.pre, last.id, last.pos)

\* C7: mark_begin and mark_end never return a mark whose value is null, and the
\* state they leave is the state the unfiltered mark_or_unmark_begin/end leaves
\* on the same input, also when the delta was suppressed.
C7_NullSuppression ==
    last.op \in {"begin", "end"} =>
        /\ (last.ret # None => last.ret[1].value # "null")
        /\ state = Unfiltered.state
        /\ (last.ret # Unfiltered.result
              => (last.ret = None /\ Unfiltered.result[1].value = "null"))

\* An end whose null delta is suppressed while its bookkeeping is done: the
\* entry is removed and the entry below starts at pos.
C7_Witness ==
    /\ last.op = "end"
    /\ last.ret = None
    /\ Unfiltered.result # None
    /\ state # last.pre
    /\ \E i \in 1..Len(state) : state[i].mark.start = last.pos

\* -------------------------------------------------------------- C8

\* What C8 says the call returns and inserts: the nearest below entry cut at
\* pos (nothing when its value is null), and the new span starting at pos.
C8_Effect ==
    /\ last.ret = IF last.pre[LastBelow].mark.value = "null" THEN None
                  ELSE Some([last.pre[LastBelow].mark EXCEPT !.end = last.pos])
    /\ state[InsAt].mark = FromData(last.pos, last.pos, last.data)

\* C8 as stated: no same-name entry above the insertion index has the new
\* value, and the nearest same-name entry below has a different value.
C8_ShadowingOnBegin_Original ==
    ( /\ Inserted
      /\ \A i \in AboveIdx : last.pre[i].mark.value # last.data.value
      /\ BelowIdx # {}
      /\ last.pre[LastBelow].mark.value # last.data.value )
        => C8_Effect

\* C8 (amended): when mark_begin inserts a new id, there is no same-name entry
\* at or above the insertion index at all, and the nearest same-name entry below
\* has a different value, the call returns a copy of that below entry with
\* end = pos (nothing when that value is null) and inserts the new span
\* starting at pos.
C8_ShadowingOnBegin ==
    ( /\ Inserted
      /\ AboveIdx = {}
      /\ BelowIdx # {}
      /\ last.pre[LastBelow].mark.value # last.data.value )
        => C8_Effect

\* A shadowing begin over two same-name entries below that differ, which
\* returns the cut copy of the nearer one.
C8_Witness ==
    /\ Inserted
    /\ AboveIdx = {}
    /\ Cardinality(BelowIdx) = 2
    /\ last.pre[LastBelow].mark.value # last.data.value
    /\ \E i \in BelowIdx : last.pre[i].mark.value # last.pre[LastBelow].mark.value
    /\ last.ret # None
    /\ last.ret[1].start # last.pos

\* ------------------------------------------------------------- C10

\* The deciding neighbour of an inserting begin: the first same-name entry at
\* or above the insertion index, otherwise the last same-name entry below it.
Decider == IF AboveIdx # {} THEN FirstAbove ELSE LastBelow

\* C10: when mark_begin inserts a new id and the deciding same-name neighbour
\* has the new payload's value, the call returns nothing and the inserted
\* entry's start is that neighbour's start.
C10_CoalesceOnBegin ==
    ( /\ Inserted
      /\ AboveIdx \cup BelowIdx # {}
      /\ last.pre[Decider].mark.value = last.data.value )
        => /\ last.ret = None
           /\ state[InsAt].mark.start = last.pre[Decider].mark.start
           /\ state[InsAt].mark.end = last.pos

\* A begin inserted under two same-name entries, coalesced with the nearer one,
\* whose start is not pos, while a below entry of another value is left alone.
C10_Witness ==
    /\ Inserted
    /\ Cardinality(AboveIdx) = 2
    /\ last.pre[Decider].mark.value = last.data.value
    /\ last.pre[Decider].mark.start # last.pos
    /\ \E i \in AboveIdx : last.pre[i].mark.start # last.pre[Decider].mark.start

\* -------------------------------------------------------------- C3

\* The latest call left the state unchanged and returned no delta.
NoEffect == state = last.pre /\ last.ret = None

\* The latest call repeats a call made before it (same id, position, payload).
Repeated == last.op # "none" /\ CallOf(last) \in hist.seen

\* C3 as stated: applying again an operation that was already applied leaves
\* the state unchanged and returns no delta.
C3_Idempotence_Original == Repeated => NoEffect

\* C3 (amended): applying again an operation that was already applied leaves
\* the state unchanged and returns no delta when it is a mark_begin whose id is
\* still in the state or a mark_end whose paired begin is not in the state, as
\* is the case whenever the operation is repeated immediately.
C3_Idempotence ==
    /\ ( /\ Repeated
         /\ \/ last.op = "begin" /\ last.id \in IdsOf(last.pre)
            \/ last.op = "end" /\ Prev(last.id) \notin IdsOf(last.pre) )
           => NoEffect
    /\ (last.op # "none" /\ hist.prev = Some(CallOf(last))) => NoEffect

\* A begin repeated immediately after it inserted an entry next to another.
C3_Witness ==
    /\ last.op = "begin"
    /\ hist.prev = Some(CallOf(last))
    /\ Len(state) = 2
    /\ \E i \in 1..2 : state[i].id = last.id /\ state[i].mark.start # last.pos

\* -------------------------------------------------------------- C6

\* The delta of name n the latest call returned (None when it returned none).
DeltaOf(n) == IF last.ret # None /\ last.ret[1].name = n THEN last.ret ELSE None

\* For every name n, the delta of this call for n and the stored entries of n
\* are those of the engine that was fed the calls of name n alone.
Isolated ==
    \A n \in Names :
        /\ DeltaOf(n) = hist.shadow[n].ret
        /\ OfName(state, n) = hist.shadow[n].state

\* No id was passed to mark_begin under two different names.
OneNamePerId == \A x, y \in hist.named : x.id = y.id => x.name = y.name

\* C6 as stated: for any sequence of operations the deltas and stored entries
\* of name n are those of the run with the operations of other names removed.
C6_NameIsolation_Original == Isolated

\* C6 (amended): in a run where no id is passed to mark_begin under two
\* different names, the deltas returned for name n and the stored entries of
\* name n are those of the run with the operations of other names removed.
C6_NameIsolation == OneNamePerId => Isolated

\* A closed span returned as a delta while an entry of the other name stands
\* above it in the state.
C6_Witness ==
    /\ OneNamePerId
    /\ last.op = "end"
    /\ last.ret # None
    /\ Len(state) = 1
    /\ state[1].mark.name # last.ret[1].name
    /\ LamportCmp(state[1].id, Prev(last.id)) = "Greater"

\* -------------------------------------------------------------- C9

\* C9: a mark_begin at p that finds no other entry of its name returns nothing,
\* and when no other entry of that name is in the engine until its end, the
\* paired mark_end at q returns exactly the mark with start = p, end = q and
\* the begin's name and value (when the value is not null).
C9_SimpleSpan ==
    /\ (Inserted /\ OfName(last.pre, last.data.name) = <<>>) => last.ret = None
    /\ \A s \in hist.soloPre :
         (last.op = "end" /\ Prev(last.id) = s.id /\ s.data.value # "null")
             => last.ret = Some(FromData(s.pos, last.pos, s.data))

\* A solo span closed at another position than its begin, while an entry of
\* another name is in the engine.
C9_Witness ==
    /\ last.op = "end"
    /\ last.ret # None
    /\ \E s \in hist.soloPre :
         Prev(last.id) = s.id /\ s.data.value # "null" /\ s.pos # last.pos
    /\ Len(state) = 1

\* -------------------------------------------------------------- C2

\* The positions of the half-open range [start, end) of a mark.
Range(m) == {p \in Positions : m.start <= p /\ p < m.end}

\* C2: in a replay with non-decreasing positions, each begin id applied once and
\* each end applied after its paired begin, any two marks of the same name
\* returned by mark_begin/mark_end cover disjoint ranges [start, end).
C2_DisjointRanges ==
    \A i, j \in 1..Len(replay.deltas) :
        (i < j /\ replay.deltas[i].name = replay.deltas[j].name)
            => Range(replay.deltas[i]) \cap Range(replay.deltas[j]) = {}

\* -------------------------------------------------------------- C1

\* Both engines were fed every operation of the set.
BothFed ==
    /\ conv.phase = "fed"
    /\ conv.fedA = OpsOf(conv.plan)
    /\ conv.fedB = OpsOf(conv.plan)

\* The entries of a state vector without their start.
NoStart(st) ==
    [i \in 1..Len(st) |->
        [id |-> st[i].id, name |-> st[i].mark.name, value |-> st[i].mark.value,
         end |-> st[i].mark.end]]

BeginInBounds(st, id) ==
    LET f == Find(st, id)
    IN  f.ok \/ (0 <= f.index /\ f.index <= Len(st))

\* The indexes mark_or_unmark_end(id, ..) uses on st are in bounds:
\* Vec::remove(index) needs index < len, and the slices state[index..] and
\* state[0..index], taken after the remove, need index <= len - 1.
EndInBounds(st, id) ==
    LET f == Find(st, Prev(id))
    IN  ~f.ok \/ (0 <= f.index /\ f.index < Len(st) /\ f.index <= Len(st) - 1)

\* What a call may return: nothing, or one mark.
IsOptionMark(r) ==
    \/ r = None
    \/ /\ Len(r) = 1
       /\ r[1].name \in Names /\ r[1].value \in Values
       /\ r[1].start \in Positions /\ r[1].end \in Positions

\* C11: in every reachable state, for every id, no call indexes outside the
\* state vector, and every call made, whatever its id, position and payload,
\* completed and returned a mark or nothing.
C11_NoOperationFatal ==
    /\ \A id \in Ids : BeginInBounds(state, id) /\ EndInBounds(state, EndOf(id))
    /\ last.op = "begin" => BeginInBounds(last.pre, last.id)
    /\ last.op = "end" => EndInBounds(last.pre, last.id)
    /\ IsOptionMark(last.ret)

\* An end that removed the last of two entries (index = len - 1), leaving a
\* state in which a begin would insert at 0 and another at len.
C11_Witness ==
    /\ last.op = "end"
    /\ Len(last.pre) = 2
    /\ last.pre[2].id = Prev(last.id)
    /\ Len(state) = 1
    /\ \E a, b \in Ids :
         /\ ~Find(state, a).ok /\ Find(state, a).index = 0
         /\ ~Find(state, b).ok /\ Find(state, b).index = Len(state)

\* ------------------------------------------------------------- C12

\* The table of the four variants: [before(), after()].
ExpandTable ==
    [v \in ExpandMarks |->
        CASE v = "Before" -> <<TRUE, FALSE>>
          [] v = "After"  -> <<FALSE, TRUE>>
          [] v = "Both"   -> <<TRUE, TRUE>>
          [] v = "None"   -> <<FALSE, FALSE>>]

\* C12: before() is true exactly for Before and Both, after() exactly for After
\* and Both, the default is After, and from(b, a) returns the one variant v
\* with v.before() = b and v.after() = a.
C12_ExpandTruthTable ==
    \A i \in 1..Len(expand) :
        LET e == expand[i]
        IN  /\ e.out \in ExpandMarks
            /\ <<e.before, e.after>> = ExpandTable[e.out]
            /\ e.via = "default" => e.out = "After"
            /\ e.via = "from" =>
                 /\ e.before = e.b /\ e.after = e.a
                 /\ \A v \in ExpandMarks :
                      ExpandTable[v] = <<e.b, e.a>> => v = e.out

\* All four variants were built by from, and the default was built as well.
C12_Witness ==
    /\ \A b, a \in BOOLEAN :
         \E i \in 1..Len(expand) :
            expand[i].via = "from" /\ expand[i].b = b /\ expand[i].a = a
    /\ \E i \in 1..Len(expand) : expand[i].via = "default"

\* ------------------------------------------------------------- C13

\* C13: the entries of the state are strictly increasing by id under the total
\* order of ids, so no id occurs twice, whatever the order in which the
\* operations were applied.
C13_SortedState ==
    \A i, j \in 1..Len(state) :
        i < j => LamportCmp(state[i].id, state[j].id) = "Less"

\* A begin applied after a begin of a greater id: its entry went between two
\* entries that were there before it.
C13_Witness ==
    /\ Inserted
    /\ Len(state) = 3
    /\ InsAt = 2
    /\ LamportCmp(last.id, last.pre[2].id) = "Less"

\* ------------------------------------------------------------- C14

\* The ids of a state vector, in the order of the vector.
IdSeq(st) == [i \in 1..Len(st) |-> st[i].id]

\* A sequence of ids without the id b.
Without(ids, b) == SelectSeq(ids, LAMBDA x : x # b)

\* C14: in a replay where each begin id is applied once and each end after its
\* begin, the ids in the state are those of the begins applied whose end is
\* not applied yet; a mark_end that finds its begin removes that one entry and
\* no other; once every begin is closed the state is empty.
C14_EntryLifecycle ==
    /\ IdsOf(state) = replay.begun \ replay.closed
    /\ Len(state) = Cardinality(replay.begun \ replay.closed)
    /\ (last.op = "end" /\ Prev(last.id) \in IdsOf(last.pre)) =>
         /\ Len(state) = Len(last.pre) - 1
         /\ IdSeq(state) = Without(IdSeq(last.pre), Prev(last.id))
    /\ replay.begun = replay.closed => state = <<>>

\* Three begins applied, and an end that found its begin between the two
\* others and removed it.
C14_Witness ==
    /\ replay.begun = Ids
    /\ last.op = "end"
    /\ Len(last.pre) = 3
    /\ last.pre[2].id = Prev(last.id)
    /\ Len(state) = 2

\* ------------------------------------------- reading the latest mark_end

\* The latest call was a mark_end that found its begin and removed the entry.
Removed == last.op = "end" /\ Prev(last.id) \in IdsOf(last.pre)

\* Where the removed entry stood in the state before the call (1-based), and
\* its mark as it was stored.
RemAt == CHOOSE i \in 1..Len(last.pre) : last.pre[i].id = Prev(last.id)
Closed == last.pre[RemAt].mark

\* The state before the call without the removed entry, nothing else touched.
RestPre ==
    [i \in 1..(Len(last.pre) - 1) |->
        IF i < RemAt THEN last.pre[i] ELSE last.pre[i + 1]]

\* The entries of the closed mark's name that stood above (below) the removed
\* entry, by their place in last.pre.
EndAboveIdx == {i \in (RemAt + 1)..Len(last.pre) : last.pre[i].mark.name = Closed.name}
EndBelowIdx == {i \in 1..(RemAt - 1) : last.pre[i].mark.name = Closed.name}
NearestBelow == CHOOSE i \in EndBelowIdx : \A j \in EndBelowIdx : i >= j

\* ------------------------------------------------------------- C15

C16_RevealOnClose ==
    (Removed /\ EndAboveIdx = {} /\ EndBelowIdx # {}) =>
        IF last.pre[NearestBelow].mark.value # Closed.value
        THEN /\ state = [RestPre EXCEPT ![NearestBelow].mark.start = last.pos]
             /\ last.ret = IF Closed.value = "null" THEN None
                           ELSE Some([Closed EXCEPT !.end = last.pos])
        ELSE /\ last.ret = None
             /\ state = RestPre

\* A close that reveals the entry below at a position other than its stored
\* start and returns the closed span.
C16_Witness ==
    /\ Removed
    /\ EndAboveIdx = {}
    /\ EndBelowIdx # {}
    /\ last.pre[NearestBelow].mark.value # Closed.value
    /\ last.pre[NearestBelow].mark.start # last.pos
    /\ state[NearestBelow].mark.start = last.pos
    /\ last.ret # None

\* ------------------------------------------------------------- C17

\* C17: in a replay with non-decreasing positions, every mark returned by
\* mark_begin or mark_end has start <= end, and every entry stored in the
\* engine has start <= the position of the latest call.
C17_WellFormedRanges ==
    /\ \A i \in 1..Len(replay.deltas) :
         replay.deltas[i].start <= replay.deltas[i].end
    /\ \A i \in 1..Len(state) : state[i].mark.start <= replay.cur

\* An end returned a mark whose start an earlier close had moved past the
\* position of its begin (the stored end).
C17_Witness ==
    /\ last.op = "end"
    /\ last.ret # None
    /\ replay.closed # {}
    /\ \E i \in 1..Len(last.pre) :
         /\ last.pre[i].id = Prev(last.id)
         /\ last.pre[i].mark.end < last.pre[i].mark.start
         /\ last.ret[1].start = last.pre[i].mark.start

\* ------------------------------------------------------------- C18

\* The span begun by b is open at position p: begun at or before p, and not
\* closed yet or closed after p.
OpenAt(b, p) ==
    /\ b \in replay.begun
    /\ replay.spans[b].from <= p
    /\ (b \in replay.closed => p < replay.spans[b].to)

\* The spans of name n open at p, and the one of them with the highest id.
OpenSpans(n, p) == {b \in Ids : OpenAt(b, p) /\ replay.spans[b].data.name = n}
Winner(n, p) ==
    CHOOSE b \in OpenSpans(n, p) :
        \A c \in OpenSpans(n, p) \ {b} : LamportCmp(c, b) = "Less"

\* C18: in a replay with non-decreasing positions, each begin id applied once
\* and each end after its begin, for every returned mark of name n and every
\* position p of its range [start, end), the span of name n with the highest
\* id among those open at p has the value of the returned mark.
C18_WinningValue ==
    \A i \in 1..Len(replay.deltas) :
        \A p \in Range(replay.deltas[i]) :
            LET n == replay.deltas[i].name
            IN  /\ OpenSpans(n, p) # {}
                /\ replay.spans[Winner(n, p)].data.value = replay.deltas[i].value

\* ------------------------------------------------------------- C19

\* C19: a mark_begin with an id not present in the state adds exactly one
\* entry (the new id and payload, end = pos) at the sorted position and leaves
\* the id, start, end and payload of every entry that was in the state
\* unchanged, also when it returns a truncated copy of the entry below.
C19_BeginOnlyInserts ==
    Inserted =>
        /\ Len(state) = Len(last.pre) + 1
        /\ state[InsAt].mark.end = last.pos
        /\ state[InsAt].mark.name = last.data.name
        /\ state[InsAt].mark.value = last.data.value
        /\ \A i \in 1..Len(last.pre) :
             IF LamportCmp(last.pre[i].id, last.id) = "Less"
             THEN i < InsAt /\ state[i] = last.pre[i]
             ELSE i >= InsAt /\ state[i + 1] = last.pre[i]

\* A begin that went between two entries and returned the entry below
\* truncated at a position other than the end stored in that entry.
C19_Witness ==
    /\ Inserted
    /\ Len(state) = 3
    /\ InsAt = 2
    /\ last.ret # None
    /\ last.ret[1].end # last.pre[1].mark.end
    /\ last.ret[1].start = last.pre[1].mark.start

\* ------------------------------------------------------------- C20

\* The components the iterator yielded, as (obj, prop) pairs, last one first.
YieldedReversed ==
    [i \in 1..Len(par.yielded) |->
        <<par.yielded[Len(par.yielded) + 1 - i].obj,
          par.yielded[Len(par.yielded) + 1 - i].prop>>]

\* C20: for any object, path() returns the components yielded by the Parents
\* iterator in reverse order (root-most first); visible_path() returns None
\* exactly when at least one yielded component has visible = false, and
\* otherwise returns the same list as path().
C20_ParentsPaths ==
    (par.phase = "open" /\ par.done) =>
        /\ par.path # None => par.path[1] = YieldedReversed
        /\ par.vpath # None =>
             par.vpath[1] =
                 IF \E i \in 1..Len(par.yielded) : ~par.yielded[i].visible
                 THEN None
                 ELSE Some(YieldedReversed)

\* An object two levels deep whose first component is visible and whose
\* second is not: path() returned both components, visible_path() None.
C20_Witness ==
    /\ par.phase = "open"
    /\ par.done
    /\ Len(par.yielded) = 2
    /\ par.yielded[1].visible
    /\ ~par.yielded[2].visible
    /\ par.yielded[1].prop # par.yielded[2].prop
    /\ par.path # None
    /\ Len(par.path[1]) = 2
    /\ par.vpath = Some(None)

====
